---- MODULE Spec2Model ----
(***************************************************************************)
(* Model of the product catalog gRPC service (Server/grpc_server.py,       *)
(* Server/models.py): the GetProduct and ListProducts handlers, the filter *)
(* compiler (apply_filters .. create_filter_condition), the in-memory      *)
(* nested filter (apply_nested_filter, matches_filter, compare_values),    *)
(* the field mask helper and the per-call storage session.                 *)
(*                                                                         *)
(* Strings that the code takes apart (order_by entries, filter paths,      *)
(* field-mask paths) are sequences of tokens, "." and "-" being tokens of  *)
(* their own; strings that the code compares by content (names, LIKE       *)
(* patterns) are sequences of one-character strings.                       *)
(***************************************************************************)
EXTENDS Integers, Sequences, FiniteSets, TLC

\* ------------------------------------------------------------------ bounds
MaxWorkers == 2
MaxOffset == 2
MaxLimit == 2

\* --------------------------------------------------------- generic helpers
Range(s) == {s[i] : i \in 1..Len(s)}

\* Python's s[start:end] on a list, start >= 0, end >= 0.
Slice(s, start, end) ==
  LET hi == IF end > Len(s) THEN Len(s) ELSE end
  IN  IF start >= hi THEN <<>> ELSE [i \in 1..(hi - start) |-> s[start + i]]

\* Python's s[start:] on a list.
SliceFrom(s, start) == Slice(s, start, Len(s))

\* str.lower() on one character, and on a string.
LowerChar(ch) == IF ch = "A" THEN "a" ELSE IF ch = "B" THEN "b" ELSE ch

Lower(s) == [i \in 1..Len(s) |-> LowerChar(s[i])]

\* Python's `b in a` on two strings: b occurs in a as a contiguous run.
Contains(a, b) ==
  \E k \in 0..(Len(a) - Len(b)) : \A i \in 1..Len(b) : a[k + i] = b[i]

\* str.split(sep): the pieces between the separator tokens.
RECURSIVE SplitAcc(_, _, _)
SplitAcc(s, sep, cur) ==
  IF s = <<>> THEN <<cur>>
  ELSE IF Head(s) = sep THEN <<cur>> \o SplitAcc(Tail(s), sep, <<>>)
  ELSE SplitAcc(Tail(s), sep, Append(cur, Head(s)))

Split(s, sep) == SplitAcc(s, sep, <<>>)

\* ------------------------------------------------------------ the database
\* models.py: the mapped classes.  Identifiers are UUIDs; the catalog below is
\* one pre-existing store (the service never writes).
ProductColumns == {"id", "name", "price", "manufacturer_id", "category_id"}

ProductRelations == {"manufacturer", "category", "reviews"}

ManufacturerColumns == {"id", "name"}

CategoryColumns == {"id", "name"}

ReviewColumns == {"id", "product_id", "rating", "text"}

\* getattr(Product, related_name).property.mapper.class_
RelatedColumns(related_name) ==
  IF related_name = "manufacturer" THEN ManufacturerColumns
  ELSE IF related_name = "category" THEN CategoryColumns
  ELSE ReviewColumns

Manufacturers ==
  [m1 |-> [id |-> "m1", name |-> <<"A", "b">>],
   m2 |-> [id |-> "m2", name |-> <<"b", "a">>]]

Categories ==
  [c1 |-> [id |-> "c1", name |-> <<"a">>]]

Review(id, product_id, rating, text) ==
  [id |-> id, product_id |-> product_id, rating |-> rating, text |-> text]

ProductIds == <<"p1", "p2", "p3">>

Products ==
  [p1 |-> [id |-> "p1", name |-> <<"a", "b">>, price |-> 2,
           manufacturer_id |-> "m1", category_id |-> "c1",
           reviews |-> <<Review("r1", "p1", 5, <<"b">>),
                         Review("r2", "p1", 1, <<"a">>),
                         Review("r3", "p1", 3, <<"a">>)>>],
   p2 |-> [id |-> "p2", name |-> <<"A">>, price |-> 1,
           manufacturer_id |-> "m2", category_id |-> "c1",
           reviews |-> <<>>],
   p3 |-> [id |-> "p3", name |-> <<"b">>, price |-> 2,
           manufacturer_id |-> "m1", category_id |-> "c1",
           reviews |-> <<Review("r4", "p3", 3, <<"a">>),
                         Review("r5", "p3", 3, <<"a">>)>>]]

\* ------------------------------------------------------------------ values
\* A Python / SQL value of one of the kinds the filters deal with.
IntV(i) == [kind |-> "int", i |-> i, s |-> <<>>]

StrV(s) == [kind |-> "str", i |-> 0, s |-> s]

\* No member of the `value` oneof is populated: WhichOneof('value') is None.
NoV == [kind |-> "none", i |-> 0, s |-> <<>>]

\* str(x) of an identifier (a UUID) and of a number: a string of its own.
Str(x) == <<x>>

StrOfInt(i) == <<ToString(i)>>

\* Code-point order of the characters in use (ord()).
Ord(ch) ==
  CASE ch = "%" -> 37
    [] ch = "," -> 44
    [] ch = "A" -> 65
    [] ch = "B" -> 66
    [] ch = "_" -> 95
    [] ch = "a" -> 97
    [] ch = "b" -> 98
    [] OTHER -> 128

RECURSIVE StrLess(_, _)
StrLess(a, b) ==
  IF b = <<>> THEN FALSE
  ELSE IF a = <<>> THEN TRUE
  ELSE IF Ord(Head(a)) # Ord(Head(b)) THEN Ord(Head(a)) < Ord(Head(b))
  ELSE StrLess(Tail(a), Tail(b))

\* a < b on two values of the same kind.
ValLess(a, b) == IF a.kind = "int" THEN a.i < b.i ELSE StrLess(a.s, b.s)

\* a == b in Python: values of different kinds are never equal.
ValEq(a, b) == a.kind = b.kind /\ a.i = b.i /\ a.s = b.s

\* item_pb2.OperatorType: the nine operators of the two operator maps, and one
\* enum number that is in neither map.
Operators ==
  {"EQUALS", "NOT_EQUALS", "GREATER_THAN", "LESS_THAN",
   "GREATER_THAN_OR_EQUALS", "LESS_THAN_OR_EQUALS", "LIKE", "IN", "NOT_IN"}

UnknownOperator == "UNKNOWN"

FilterCriteria(operator, value) == [operator |-> operator, value |-> value]

\* -------------------------------------------------------- the wire response
ReviewResponse(review) ==
  [id |-> Str(review.id), product_id |-> Str(review.product_id),
   rating |-> review.rating, text |-> review.text]

SubMessage(row) == [set |-> TRUE, id |-> Str(row.id), name |-> row.name]

UnsetSubMessage == [set |-> FALSE, id |-> <<>>, name |-> <<>>]

\* product_to_response: every column is projected, identifiers stringified,
\* the two singular relations reduced to {id, name}, every review projected in
\* the order the relationship holds them.
product_to_response(db_product) ==
  [id |-> Str(db_product.id),
   name |-> db_product.name,
   price |-> db_product.price,
   manufacturer_id |-> Str(db_product.manufacturer_id),
   category_id |-> Str(db_product.category_id),
   manufacturer |->
     IF db_product.manufacturer_id \in DOMAIN Manufacturers
     THEN SubMessage(Manufacturers[db_product.manufacturer_id])
     ELSE UnsetSubMessage,
   category |->
     IF db_product.category_id \in DOMAIN Categories
     THEN SubMessage(Categories[db_product.category_id])
     ELSE UnsetSubMessage,
   reviews |->
     [i \in 1..Len(db_product.reviews) |-> ReviewResponse(db_product.reviews[i])]]

\* The descriptor of each message type: its field names.
ProductResponseFields ==
  {"id", "name", "price", "manufacturer_id", "category_id",
   "manufacturer", "category", "reviews"}

ReviewResponseFields == {"id", "product_id", "rating", "text"}

FieldMaskFields == {"paths"}

\* --------------------------------------------------- in-memory comparison
\* compare_values: the operator map of the in-memory evaluator.  An operation
\* that raises (a comparison across kinds, .lower() on a number, `in` on a
\* number) is caught and gives False; an operator outside the map gives True.
compare_values(field_value, filter_value, operator) ==
  LET a == field_value
      b == filter_value
      sameKind == a.kind = b.kind
      stra == IF a.kind = "int" THEN StrOfInt(a.i) ELSE a.s
  IN  CASE operator = "EQUALS" -> ValEq(a, b)
        [] operator = "NOT_EQUALS" -> ~ValEq(a, b)
        [] operator = "GREATER_THAN" -> sameKind /\ ValLess(b, a)
        [] operator = "LESS_THAN" -> sameKind /\ ValLess(a, b)
        [] operator = "GREATER_THAN_OR_EQUALS" -> sameKind /\ ~ValLess(a, b)
        [] operator = "LESS_THAN_OR_EQUALS" -> sameKind /\ ~ValLess(b, a)
        [] operator = "LIKE" ->
             b.kind = "str" /\ Contains(Lower(stra), Lower(b.s))
        [] operator = "IN" ->
             b.kind = "str" /\ a.kind = "str" /\ a.s \in Range(Split(b.s, ","))
        [] operator = "NOT_IN" ->
             b.kind = "str" /\ ~(a.kind = "str" /\ a.s \in Range(Split(b.s, ",")))
        [] OTHER -> TRUE

\* The attribute a path string names: a path of one token names that token,
\* any other string (empty, or with a "." in it) names no attribute.
AttrName(path) == IF Len(path) = 1 THEN path[1] ELSE ""

\* getattr(response, field, None) on a review of the response.
ReviewFieldValue(response, field) ==
  IF field = "rating" THEN IntV(response.rating)
  ELSE IF field = "id" THEN StrV(response.id)
  ELSE IF field = "product_id" THEN StrV(response.product_id)
  ELSE StrV(response.text)

\* matches_filter: every entry of the where-map must accept the response.  A
\* field the message does not have rejects it; so does any exception, and
\* reading the value of a criteria with no value populated is one
\* (getattr(filter_criteria, None)), whatever the operator.
matches_filter(response, filters) ==
  \A field \in DOMAIN filters :
    /\ AttrName(field) \in ReviewResponseFields
    /\ filters[field].value.kind # "none"
    /\ compare_values(ReviewFieldValue(response, AttrName(field)),
                      filters[field].value, filters[field].operator)

\* --------------------------------------------------------- filter compiler
\* What a helper hands back: either it raised (msg is str(e)) or it returned.
Raised(msg) == [raised |-> TRUE, msg |-> msg]

\* The compiled storage condition on one column: always true, or a comparison.
TrueCondition == [kind |-> "true", operator |-> "", value |-> NoV]

Comparison(operator, value) ==
  [kind |-> "cmp", operator |-> operator, value |-> value]

\* create_filter_condition: reads the populated value first (TypeError when
\* none is), then looks the operator up; an operator outside the map compiles
\* to True.  in_() of a number is refused by the query builder.
create_filter_condition(filter_criteria) ==
  IF filter_criteria.value.kind = "none"
  THEN Raised(<<"TypeError">>) @@ [cond |-> TrueCondition]
  ELSE IF filter_criteria.operator \in Operators
  THEN IF filter_criteria.operator \in {"IN", "NOT_IN"}
          /\ filter_criteria.value.kind # "str"
       THEN Raised(<<"ArgumentError">>) @@ [cond |-> TrueCondition]
       ELSE [raised |-> FALSE, msg |-> <<>>,
             cond |-> Comparison(filter_criteria.operator, filter_criteria.value)]
  ELSE [raised |-> FALSE, msg |-> <<>>, cond |-> TrueCondition]

\* A compiled condition on the root entity: on a column of its own (rel = "")
\* or an existence sub-query on the row of a one-hop relation.
NoCondition == [rel |-> "", attr |-> "", cond |-> TrueCondition]

\* The relation branch of apply_filter_criteria, on the pieces of the split
\* path and the compiled condition.  The getattr calls come first: an unknown
\* relation, reviews (Product has no reviews_id) and an unknown attribute
\* raise before create_filter_condition is called.
RelatedCondition(parts, compiled) ==
  IF Len(parts) # 2
  THEN Raised(<<"ValueError">>) @@ [c |-> NoCondition]
  ELSE IF AttrName(parts[1]) \notin ProductRelations
  THEN Raised(<<"AttributeError">>) @@ [c |-> NoCondition]
  ELSE IF AttrName(parts[1]) = "reviews"
  THEN Raised(<<"AttributeError">>) @@ [c |-> NoCondition]
  ELSE IF AttrName(parts[2]) \notin RelatedColumns(AttrName(parts[1]))
  THEN Raised(<<"AttributeError">>) @@ [c |-> NoCondition]
  ELSE IF compiled.raised
  THEN Raised(compiled.msg) @@ [c |-> NoCondition]
  ELSE [raised |-> FALSE, msg |-> <<>>,
        c |-> [rel |-> AttrName(parts[1]), attr |-> AttrName(parts[2]),
               cond |-> compiled.cond]]

\* The column branch of apply_filter_criteria.
ColumnCondition(attr, compiled) ==
  IF attr \notin ProductColumns
  THEN Raised(<<"AttributeError">>) @@ [c |-> NoCondition]
  ELSE IF compiled.raised
  THEN Raised(compiled.msg) @@ [c |-> NoCondition]
  ELSE [raised |-> FALSE, msg |-> <<>>,
        c |-> [rel |-> "", attr |-> attr, cond |-> compiled.cond]]

\* apply_filter_criteria: a path with a "." is <relation>.<attr> and compiles
\* to EXISTS(related row with id = Product.<relation>_id and the condition);
\* any other path is a column of Product.  Every getattr on a name the mapped
\* class does not have raises, and so does unpacking a split of three pieces.
apply_filter_criteria(field, filter_criteria) ==
  IF "." \in Range(field)
  THEN RelatedCondition(Split(field, "."),
                        create_filter_condition(filter_criteria))
  ELSE ColumnCondition(AttrName(field),
                       create_filter_condition(filter_criteria))

\* and_ of the compiled conditions, unless compiling one of them raised.
Conjunction(compiled) ==
  IF \E r \in compiled : r.raised
  THEN Raised((CHOOSE r \in compiled : r.raised).msg) @@ [conds |-> {}]
  ELSE [raised |-> FALSE, msg |-> <<>>, conds |-> {r.c : r \in compiled}]

\* apply_filters: and_ of the conditions of every entry of the where-map; an
\* entry that raises ends it.
apply_filters(filters) ==
  Conjunction({apply_filter_criteria(f, filters[f]) : f \in DOMAIN filters})

\* ------------------------------------------------------- storage execution
\* SQL LIKE (PostgreSQL): "%" matches any run of characters, "_" any one
\* character, every other character itself and only itself.
RECURSIVE LikeMatch(_, _)
LikeMatch(s, pattern) ==
  IF pattern = <<>> THEN s = <<>>
  ELSE IF Head(pattern) = "%"
  THEN LikeMatch(s, Tail(pattern)) \/ (s # <<>> /\ LikeMatch(Tail(s), pattern))
  ELSE IF Head(pattern) = "_"
  THEN s # <<>> /\ LikeMatch(Tail(s), Tail(pattern))
  ELSE s # <<>> /\ Head(s) = Head(pattern) /\ LikeMatch(Tail(s), Tail(pattern))

\* The operator map of create_filter_condition, as the database evaluates it
\* on a column value of the kind of the bound value.
SqlCompare(column, operator, value) ==
  CASE operator = "EQUALS" -> ValEq(column, value)
    [] operator = "NOT_EQUALS" -> ~ValEq(column, value)
    [] operator = "GREATER_THAN" -> ValLess(value, column)
    [] operator = "LESS_THAN" -> ValLess(column, value)
    [] operator = "GREATER_THAN_OR_EQUALS" -> ~ValLess(column, value)
    [] operator = "LESS_THAN_OR_EQUALS" -> ~ValLess(value, column)
    [] operator = "LIKE" -> LikeMatch(column.s, <<"%">> \o value.s \o <<"%">>)
    [] operator = "IN" -> column.s \in Range(Split(value.s, ","))
    [] operator = "NOT_IN" -> column.s \notin Range(Split(value.s, ","))
    [] OTHER -> TRUE

\* The value of a column of a row, by column name.
ColumnValue(row, attr) ==
  IF attr \in {"price", "rating"} THEN IntV(row[attr])
  ELSE IF attr \in {"name", "text"} THEN StrV(row[attr])
  ELSE StrV(Str(row[attr]))

\* The row a one-hop relation of a product refers to.
RelatedRow(product, rel) ==
  IF rel = "manufacturer" THEN Manufacturers[product.manufacturer_id]
  ELSE Categories[product.category_id]

\* The database refuses a comparison of a column with a value of another SQL
\* type, and LIKE on a number, when it plans the statement.
ConditionTypeOk(c) ==
  \/ c.cond.kind = "true"
  \/ /\ c.cond.value.kind = (IF c.attr \in {"price", "rating"} THEN "int" ELSE "str")
     /\ c.cond.operator \in {"LIKE", "IN", "NOT_IN"} => c.cond.value.kind = "str"

\* Whether a product row satisfies one compiled condition.
EvalCondition(c, product) ==
  \/ c.cond.kind = "true"
  \/ SqlCompare(ColumnValue(IF c.rel = "" THEN product
                            ELSE RelatedRow(product, c.rel), c.attr),
                c.cond.operator, c.cond.value)

\* One ORDER BY key, compiled from one order_by string: a leading "-" is
\* descending, <relation>.<attr> joins the related table and sorts on it.
NoKey == [rel |-> "", attr |-> "", desc |-> FALSE]

RelatedKey(parts, descending) ==
  IF Len(parts) # 2
  THEN Raised(<<"ValueError">>) @@ [key |-> NoKey]
  ELSE IF AttrName(parts[1]) \notin ProductRelations
  THEN Raised(<<"AttributeError">>) @@ [key |-> NoKey]
  ELSE IF AttrName(parts[2]) \notin RelatedColumns(AttrName(parts[1]))
  THEN Raised(<<"AttributeError">>) @@ [key |-> NoKey]
  ELSE [raised |-> FALSE, msg |-> <<>>,
        key |-> [rel |-> AttrName(parts[1]), attr |-> AttrName(parts[2]),
                 desc |-> descending]]

ColumnKey(attr, descending) ==
  IF attr \notin ProductColumns
  THEN Raised(<<"AttributeError">>) @@ [key |-> NoKey]
  ELSE [raised |-> FALSE, msg |-> <<>>,
        key |-> [rel |-> "", attr |-> attr, desc |-> descending]]

FieldKey(field, descending) ==
  IF "." \in Range(field) THEN RelatedKey(Split(field, "."), descending)
  ELSE ColumnKey(AttrName(field), descending)

OrderKey(order_by) ==
  IF order_by # <<>> /\ Head(order_by) = "-"
  THEN FieldKey(Tail(order_by), TRUE)
  ELSE FieldKey(order_by, FALSE)

\* The keys of the entries, unless one of them raised (the first that did).
OrderKeys(compiled) ==
  IF \E i \in DOMAIN compiled : compiled[i].raised
  THEN Raised(compiled[CHOOSE i \in DOMAIN compiled :
                         /\ compiled[i].raised
                         /\ \A j \in 1..(i - 1) : ~compiled[j].raised].msg)
       @@ [keys |-> <<>>]
  ELSE [raised |-> FALSE, msg |-> <<>>,
        keys |-> [i \in DOMAIN compiled |-> compiled[i].key]]

\* The ordering loop: the keys in the sequence of the request, up to the first
\* entry that raises.
ApplyOrdering(order_by) ==
  OrderKeys([i \in 1..Len(order_by) |-> OrderKey(order_by[i])])

\* The rows of the statement: the products that satisfy every condition,
\* inner-joined with each related table an order_by entry named.  A row is a
\* product and, under a join with reviews, one of its reviews (else 0).
Matching(conds) ==
  {id \in Range(ProductIds) : \A c \in conds : EvalCondition(c, Products[id])}

ProductRows(matching) == {[product |-> id, review |-> 0] : id \in matching}

ReviewRows(matching) ==
  UNION {{[product |-> id, review |-> r] : r \in 1..Len(Products[id].reviews)} :
           id \in matching}

JoinedRows(conds, keys) ==
  IF \E i \in 1..Len(keys) : keys[i].rel = "reviews"
  THEN ReviewRows(Matching(conds))
  ELSE ProductRows(Matching(conds))

\* The value a row has for one ORDER BY key.
KeyValue(row, key) ==
  IF key.rel = "" THEN ColumnValue(Products[row.product], key.attr)
  ELSE IF key.rel = "reviews"
  THEN ColumnValue(Products[row.product].reviews[row.review], key.attr)
  ELSE ColumnValue(RelatedRow(Products[row.product], key.rel), key.attr)

\* Row a sorts strictly before row b: the first key on which they differ
\* decides, in its direction.
RECURSIVE RowBefore(_, _, _)
RowBefore(a, b, keys) ==
  IF keys = <<>> THEN FALSE
  ELSE IF ValEq(KeyValue(a, Head(keys)), KeyValue(b, Head(keys)))
  THEN RowBefore(a, b, Tail(keys))
  ELSE IF Head(keys).desc
  THEN ValLess(KeyValue(b, Head(keys)), KeyValue(a, Head(keys)))
  ELSE ValLess(KeyValue(a, Head(keys)), KeyValue(b, Head(keys)))

\* Every order in which the database may return the rows: sorted by the keys,
\* rows that tie on all keys in any order.
Orderings(rows, keys) ==
  {L \in [1..Cardinality(rows) -> rows] :
     /\ \A i, j \in 1..Cardinality(rows) : i # j => L[i] # L[j]
     /\ \A i, j \in 1..Cardinality(rows) : i < j => ~RowBefore(L[j], L[i], keys)}

\* query.offset(offset).limit(limit): OFFSET offset LIMIT limit.
Paginate(L, offset, limit) == Slice(L, offset, offset + limit)

\* The ORM returns each product entity once, at its first row.
RECURSIVE UniqueProducts(_, _)
UniqueProducts(L, seen) ==
  IF L = <<>> THEN <<>>
  ELSE IF Head(L).product \in seen THEN UniqueProducts(Tail(L), seen)
  ELSE <<Head(L).product>> \o UniqueProducts(Tail(L), seen \cup {Head(L).product})

\* ------------------------------------------------------------- field mask
\* apply_field_mask: field_mask.MergeMessage(field_mask, response, response).
\* MergeMessage(source, destination, ...) walks the tree of the mask's paths
\* over the descriptor of its SOURCE argument and copies each named field from
\* source to destination.  The call passes the mask itself as the source, so
\* the descriptor walked is FieldMask's: a first path component that is not a
\* field of FieldMask raises KeyError; "paths" with a sub-path raises
\* ValueError (a repeated field has no sub-fields); "paths" alone is read from
\* the destination, which has it only if it is a FieldMask too.  Nothing is
\* cleared and nothing is copied before the raise: the destination is as it
\* was.  With no paths the tree is empty and the call does nothing.
apply_field_mask(response, destinationFields, paths) ==
  LET names == {AttrName(Split(paths[i], ".")[1]) : i \in 1..Len(paths)}
      nested == {i \in 1..Len(paths) : Len(Split(paths[i], ".")) > 1}
  IN  IF paths = <<>>
      THEN [raised |-> FALSE, msg |-> <<>>, response |-> response]
      ELSE IF \E name \in names : name \notin FieldMaskFields
      THEN Raised(<<"KeyError">>) @@ [response |-> response]
      ELSE IF nested # {}
      THEN Raised(<<"ValueError">>) @@ [response |-> response]
      ELSE IF "paths" \notin destinationFields
      THEN Raised(<<"AttributeError">>) @@ [response |-> response]
      ELSE [raised |-> FALSE, msg |-> <<>>, response |-> response]

\* ---------------------------------------------------------- nested filter
\* The key of list.sort in apply_nested_filter: getattr(x, field, 0).
SortKey(x, field) ==
  IF AttrName(field) \in ReviewResponseFields
  THEN ReviewFieldValue(x, AttrName(field))
  ELSE IntV(0)

\* x belongs strictly before y in the sorted list.
SortsBefore(x, y, field, reverse) ==
  IF reverse THEN ValLess(SortKey(y, field), SortKey(x, field))
  ELSE ValLess(SortKey(x, field), SortKey(y, field))

\* Where x, the last element, goes in the sorted run of those before it:
\* in front of the first one it sorts strictly before, else at the end.
InsertLast(front, x, field, reverse) ==
  IF \E i \in 1..Len(front) : SortsBefore(x, front[i], field, reverse)
  THEN LET pos == CHOOSE i \in 1..Len(front) :
                    /\ SortsBefore(x, front[i], field, reverse)
                    /\ \A j \in 1..(i - 1) : ~SortsBefore(x, front[j], field, reverse)
       IN  SubSeq(front, 1, pos - 1) \o <<x>> \o SubSeq(front, pos, Len(front))
  ELSE Append(front, x)

\* list.sort(key, reverse): stable in both directions, elements with equal
\* keys keep the order they had.
RECURSIVE StableSort(_, _, _)
StableSort(s, field, reverse) ==
  IF s = <<>> THEN <<>>
  ELSE InsertLast(StableSort(SubSeq(s, 1, Len(s) - 1), field, reverse),
                  s[Len(s)], field, reverse)

\* One entry of nested_filter.order_by: a leading "-" sorts in reverse.
SortBy(s, order_by) ==
  IF order_by # <<>> /\ Head(order_by) = "-"
  THEN StableSort(s, Tail(order_by), TRUE)
  ELSE StableSort(s, order_by, FALSE)

\* The loop over nested_filter.order_by: one full sort per entry, in sequence.
RECURSIVE SortAll(_, _)
SortAll(s, order_by) ==
  IF order_by = <<>> THEN s
  ELSE SortAll(SortBy(s, Head(order_by)), Tail(order_by))

NestedFilter(where, order_by, offset, limit, paths) ==
  [where |-> where, order_by |-> order_by, offset |-> offset, limit |-> limit,
   field_mask |-> paths]

\* The slice with `end = start + limit` whatever the limit: a limit of 0 keeps
\* nothing.
NestedSliceLimitZeroEmpty(sorted, offset, limit) ==
  Slice(sorted, offset, offset + limit)

\* filtered_responses[start:end], end = start + limit if limit > 0 else None.
NestedSlice(sorted, offset, limit) ==
  IF limit > 0 THEN Slice(sorted, offset, offset + limit)
  ELSE SliceFrom(sorted, offset)

\* The mask loop over the responses now in the list: the first
\* apply_field_mask that raises ends the loop, and the handler of
\* apply_nested_filter logs it.
NestedMask(sliced, paths) ==
  IF paths # <<>> /\ sliced # <<>>
     /\ apply_field_mask(sliced[1], ReviewResponseFields, paths).raised
  THEN [responses |-> sliced, failed |-> TRUE]
  ELSE [responses |->
          [i \in 1..Len(sliced) |->
             apply_field_mask(sliced[i], ReviewResponseFields, paths).response],
        failed |-> FALSE]

\* apply_nested_filter: keep the responses that match, sort, slice
\* [offset, offset+limit) or [offset, end) for limit = 0, replace the list in
\* place, then mask each survivor.  Its own handler swallows every exception:
\* it never raises, and a failure of the mask leaves the sliced list in place.
apply_nested_filter(nested_responses, nested_filter) ==
  NestedMask(
    NestedSlice(
      SortAll(SelectSeq(nested_responses,
                        LAMBDA response :
                          matches_filter(response, nested_filter.where)),
              nested_filter.order_by),
      nested_filter.offset, nested_filter.limit),
    nested_filter.field_mask)

\* ------------------------------------------------------------ gRPC context
\* The servicer context of one call: the status code and details the call
\* will end with if it was aborted.
NewContext == [code |-> "OK", details |-> <<>>, aborted |-> FALSE]

\* context.abort(code, details): records code and details on the call,
\* replacing what an earlier abort recorded, and raises Exception() (whose
\* str() is empty) so that the handler stops.
abort(context, code, details) ==
  [code |-> code, details |-> details, aborted |-> TRUE]

\* handle_error(context, message): context.abort(INTERNAL, message).
handle_error(context, message) == abort(context, "INTERNAL", message)

\* The `except Exception` of the outermost try of ListProducts, entered by
\* whatever was raised inside it, the Exception() of an abort included.
UnexpectedError(context, msg) ==
  handle_error(context, <<"Unexpected error: ">> \o msg)

\* The messages of the request-level failures.
ErrorMessage(stage, msg) == <<stage>> \o msg

\* ----------------------------------------------------------------- results
NoProductResponse ==
  [id |-> <<>>, name |-> <<>>, price |-> 0, manufacturer_id |-> <<>>,
   category_id |-> <<>>, manufacturer |-> UnsetSubMessage,
   category |-> UnsetSubMessage, reviews |-> <<>>]

\* What the body of a handler leaves behind: the context, whether it returned
\* a response, the response (product for GetProduct; products and total_count
\* for ListProducts), and the errors it logged.  fault, rows and fetched keep
\* what the storage did in the call: the fault injected, the ordered rows of
\* the statement, and db_products.
Outcome(context, returned, product, products, total_count, log, fault, rows, fetched) ==
  [context |-> context, returned |-> returned, product |-> product,
   products |-> products, total_count |-> total_count, log |-> log,
   fault |-> fault, rows |-> rows, fetched |-> fetched]

Aborted(context, log, fault) ==
  Outcome(context, FALSE, NoProductResponse, <<>>, 0, log, fault, <<>>, <<>>)

LogEvent(event, product) == [event |-> event, product |-> product]

\* ---------------------------------------------------------------- GetProduct
\* UUID(request.id): the identifiers that parse.
ValidUuids == Range(ProductIds) \cup {"p9"}

GetRequest(id, paths) == [id |-> id, field_mask |-> paths]

\* `except Exception` of GetProduct: logs and aborts with INTERNAL, whatever
\* the context already records.
GetProductError(context, msg, fault) ==
  Aborted(abort(context, "INTERNAL", <<"Internal server error: ">> \o msg),
          {LogEvent("Error processing GetProduct request: ", "")}, fault)

\* GetProduct from the converted response on: the mask (a no-op without
\* paths), whose exception lands in the handler, then the return.
GetProductFound(masked, fault) ==
  IF masked.raised THEN GetProductError(NewContext, masked.msg, fault)
  ELSE Outcome(NewContext, TRUE, masked.response, <<>>, 0, {}, fault, <<>>, <<>>)

\* The try / except of GetProduct.  fault is what the environment does to the
\* call: "query" fails the storage query.  Every exception, the one raised by
\* the NOT_FOUND abort included, lands in `except Exception`, which aborts
\* again with INTERNAL.
GetProduct(request, fault) ==
  IF request.id \notin ValidUuids
  THEN GetProductError(NewContext, <<"ValueError">>, fault)
  ELSE IF fault = "query"
  THEN GetProductError(NewContext, <<"OperationalError">>, fault)
  ELSE IF request.id \notin DOMAIN Products
  THEN GetProductError(abort(NewContext, "NOT_FOUND", <<"Product not found">>),
                       <<>>, fault)
  ELSE GetProductFound(
         apply_field_mask(product_to_response(Products[request.id]),
                          ProductResponseFields, request.field_mask),
         fault)

\* -------------------------------------------------------------- ListProducts
ListRequest(where, order_by, offset, limit, nested_filters, paths) ==
  [where |-> where, order_by |-> order_by, offset |-> offset, limit |-> limit,
   nested_filters |-> nested_filters, field_mask |-> paths]

\* The REVIEWS entry of nested_filters applied to the reviews of the converted
\* response; failed tells whether apply_nested_filter logged an error.
ReviewsReplaced(converted, nested) ==
  [response |-> [converted EXCEPT !.reviews = nested.responses],
   failed |-> nested.failed]

NestedStep(converted, nested_filters) ==
  IF "REVIEWS" \in DOMAIN nested_filters
  THEN ReviewsReplaced(converted,
                       apply_nested_filter(converted.reviews,
                                           nested_filters["REVIEWS"]))
  ELSE [response |-> converted, failed |-> FALSE]

\* A loop body without the inner handlers: a failure of the nested filter or
\* of the field mask reaches the handler of the loop, and the product is
\* skipped.
AppendStepDropsOnAnyFailure(id, step, masked) ==
  [appended |-> ~step.failed /\ ~masked.raised,
   response |-> masked.response,
   log |-> (IF step.failed THEN {LogEvent("nested", id)} ELSE {})
           \cup (IF masked.raised THEN {LogEvent("mask", id)} ELSE {})]

\* The end of the loop body: the nested filter and the mask ran inside
\* handlers of their own, which logged what failed; the response is appended.
AppendStep(id, step, masked) ==
  [appended |-> TRUE,
   response |-> masked.response,
   log |-> (IF step.failed THEN {LogEvent("nested", id)} ELSE {})
           \cup (IF masked.raised THEN {LogEvent("mask", id)} ELSE {})]

\* The field mask of the request on the response the nested step left (a
\* no-op without paths), then the append.
MaskStep(id, step, paths) ==
  AppendStep(id, step,
             apply_field_mask(step.response, ProductResponseFields, paths))

\* The body of the loop over db_products for one product: conversion, the
\* REVIEWS nested filter, the field mask, append.  convFail is the set of
\* products whose conversion raises.  Only a failure of the conversion reaches
\* the handler of the loop and skips the append.
ShapeProduct(id, request, convFail) ==
  IF id \in convFail
  THEN [appended |-> FALSE, response |-> NoProductResponse,
        log |-> {LogEvent("product", id)}]
  ELSE MaskStep(id,
                NestedStep(product_to_response(Products[id]),
                           request.nested_filters),
                request.field_mask)

\* One more product of the loop: its response appended if it was shaped.
Appended(one, rest) ==
  [products |-> (IF one.appended THEN <<one.response>> ELSE <<>>) \o rest.products,
   log |-> one.log \cup rest.log]

\* The loop: the responses appended, in the order of db_products.
RECURSIVE ShapeAll(_, _, _)
ShapeAll(db_products, request, convFail) ==
  IF db_products = <<>> THEN [products |-> <<>>, log |-> {}]
  ELSE Appended(ShapeProduct(Head(db_products), request, convFail),
                ShapeAll(Tail(db_products), request, convFail))

\* A stage of ListProducts failed: its handler calls handle_error, whose abort
\* raises inside the outer try; the outer handler calls handle_error again.
ListProductsError(stage, msg, fault) ==
  Aborted(UnexpectedError(handle_error(NewContext, ErrorMessage(stage, msg)),
                          <<>>),
          {LogEvent(stage, ""), LogEvent("Unexpected error: ", "")}, fault)

\* The response of ListProducts: total_count and the shaped products.
ListResponse(total_count, db_products, shaped, fault, L) ==
  Outcome(NewContext, TRUE, NoProductResponse, shaped.products, total_count,
          shaped.log, fault, L, db_products)

\* Pagination, fetch and the loop, for the products fetched.
ListPage(request, db_products, fault, convFail, L) ==
  ListResponse(Len(L), db_products, ShapeAll(db_products, request, convFail),
               fault, L)

\* ListProducts on the compiled filter and ordering.
ListStages(request, filters, ordering, fault, convFail, L) ==
  IF filters.raised
  THEN ListProductsError("Error applying filters: ", filters.msg, fault)
  ELSE IF ordering.raised
  THEN ListProductsError("Error applying ordering: ", ordering.msg, fault)
  ELSE IF fault = "count" \/ \E c \in filters.conds : ~ConditionTypeOk(c)
  THEN ListProductsError("Error getting total count: ", <<"DBAPIError">>, fault)
  ELSE IF fault = "fetch"
  THEN ListProductsError("Error fetching products: ", <<"DBAPIError">>, fault)
  ELSE ListPage(request,
                UniqueProducts(Paginate(L, request.offset, request.limit), {}),
                fault, convFail, L)

\* The try / except of ListProducts.  L is the order in which the database
\* returns the rows of the statement; fault fails the count or the fetch.
ListProducts(request, fault, convFail, L) ==
  ListStages(request, apply_filters(request.where),
             ApplyOrdering(request.order_by), fault, convFail, L)

\* The rows and orders the database can answer a statement with; one empty
\* answer when the statement is never built or is refused.
AnswersTo(filters, ordering) ==
  IF filters.raised \/ ordering.raised THEN {<<>>}
  ELSE IF \E c \in filters.conds : ~ConditionTypeOk(c) THEN {<<>>}
  ELSE Orderings(JoinedRows(filters.conds, ordering.keys), ordering.keys)

Answers(request) ==
  AnswersTo(apply_filters(request.where), ApplyOrdering(request.order_by))

\* ------------------------------------------------------------ the requests
Criteria(field, operator, value) == field :> FilterCriteria(operator, value)

WhereOpts ==
  {<<>>,
   Criteria(<<"name">>, "LIKE", StrV(<<"a">>)),
   Criteria(<<"name">>, "LIKE", StrV(<<"_", "b">>)),
   Criteria(<<"manufacturer", ".", "name">>, "LIKE", StrV(<<"a">>)),
   Criteria(<<"price">>, "GREATER_THAN", IntV(1)),
   Criteria(<<"name">>, "IN", StrV(<<"A", ",", "b">>)),
   Criteria(<<"price">>, "EQUALS", IntV(2))
     @@ Criteria(<<"manufacturer", ".", "name">>, "NOT_EQUALS", StrV(<<"b", "a">>)),
   Criteria(<<"price">>, UnknownOperator, IntV(1)),
   Criteria(<<"price">>, UnknownOperator, NoV),
   Criteria(<<"manufacturer", ".", "name">>, UnknownOperator, NoV),
   Criteria(<<"price">>, "EQUALS", NoV),
   Criteria(<<"price">>, "IN", IntV(1)),
   Criteria(<<"name">>, "EQUALS", IntV(1)),
   Criteria(<<"colour">>, "EQUALS", IntV(1)),
   Criteria(<<"supplier", ".", "name">>, "EQUALS", StrV(<<"a">>)),
   Criteria(<<"manufacturer", ".", "colour">>, "EQUALS", StrV(<<"a">>)),
   Criteria(<<"reviews", ".", "rating">>, "EQUALS", IntV(3)),
   Criteria(<<"manufacturer", ".", "name", ".", "id">>, "EQUALS", StrV(<<"a">>))}

\* At most one entry with a relation prefix: a second join of the same table
\* is outside this model.
OrderOpts ==
  {<<>>,
   <<<<"price">>>>,
   <<<<"-", "price">>>>,
   <<<<"price">>, <<"-", "name">>>>,
   <<<<"manufacturer", ".", "name">>>>,
   <<<<"-", "reviews", ".", "rating">>>>,
   <<<<"price">>, <<"reviews", ".", "rating">>>>,
   <<<<"colour">>>>,
   <<<<"supplier", ".", "name">>>>,
   <<<<"price">>, <<"manufacturer", ".", "colour">>>>,
   <<<<"a", ".", "b", ".", "c">>>>}

FullMask ==
  <<<<"id">>, <<"name">>, <<"price">>, <<"manufacturer_id">>,
    <<"category_id">>, <<"manufacturer">>, <<"category">>, <<"reviews">>>>

MaskOpts ==
  {<<>>, <<<<"name">>>>, <<<<"manufacturer", ".", "name">>>>,
   <<<<"name">>, <<"reviews">>>>, <<<<"paths">>>>, FullMask}

NestedOpts ==
  {<<>>,
   "REVIEWS" :> NestedFilter(Criteria(<<"rating">>, "GREATER_THAN", IntV(2)),
                             <<<<"-", "rating">>>>, 0, 1, <<>>),
   "REVIEWS" :> NestedFilter(<<>>, <<<<"rating">>>>, 1, 0, <<>>),
   "REVIEWS" :> NestedFilter(<<>>, <<>>, 0, 0, <<<<"rating">>>>),
   "REVIEWS" :> NestedFilter(Criteria(<<"rating">>, UnknownOperator, NoV),
                             <<>>, 0, 0, <<>>),
   "REVIEWS" :> NestedFilter(Criteria(<<"colour">>, "EQUALS", IntV(1)),
                             <<>>, 0, 0, <<>>),
   "REVIEWS" :> NestedFilter(Criteria(<<"rating">>, "GREATER_THAN", IntV(2))
                               @@ Criteria(<<"text">>, "LIKE", StrV(<<"A">>)),
                             <<<<"colour">>>>, 0, 2, <<>>),
   "REVIEWS" :> NestedFilter(<<>>, <<<<"-", "text">>>>, 1, 1, <<>>),
   "REVIEWS" :> NestedFilter(<<>>, <<<<"-", "rating">>>>, 2, 2, <<<<"rating">>>>),
   "REVIEWS" :> NestedFilter(<<>>, <<<<"text">>, <<"-", "rating">>>>, 0, 0, <<>>),
   "REVIEWS" :> NestedFilter(<<>>, <<<<"rating">>, <<"text">>>>, 0, 0, <<>>),
   "REVIEWS" :> NestedFilter(<<>>, <<<<"-", "text">>, <<"rating">>>>, 1, 1, <<>>),
   "ORDERS" :> NestedFilter(<<>>, <<>>, 0, 1, <<>>)}

GetRequests ==
  {GetRequest(id, paths) : id \in {"p1", "p2", "p9", "not-a-uuid"},
                           paths \in MaskOpts}

\* ListProducts requests: every filter, ordering, offset and limit with no
\* shaping options, and every shaping option on a plain page.
QueryRequests ==
  {ListRequest(where, order_by, offset, limit, <<>>, <<>>) :
     where \in WhereOpts, order_by \in OrderOpts,
     offset \in 0..MaxOffset, limit \in 0..MaxLimit}

ShapeRequests ==
  {ListRequest(<<>>, order_by, offset, MaxLimit, nested_filters, paths) :
     order_by \in {<<>>, <<<<"price">>>>}, offset \in {0, 1},
     nested_filters \in NestedOpts, paths \in MaskOpts}

ListRequests == QueryRequests \cup ShapeRequests

\* What the environment may do to one call.
GetFaults == {"none", "query"}

ListFaults == {"none", "count", "fetch"}

ConvFails == {{}} \cup {{id} : id \in Range(ProductIds)}

\* ------------------------------------------------------------------- state
Workers == 1..MaxWorkers

SessionIds == 1..MaxWorkers

VARIABLES
  pc,        \* per worker: "idle", "running", "closing", "done"
  method,    \* per worker: the RPC it serves
  req,       \* per worker: the request message
  db,        \* per worker: the session SessionLocal() gave its call (0: none)
  sessions,  \* per session: "free", "open", "closed"
  closes,    \* per session: how many times close() was called on it
  out        \* per worker: the outcome of the handler body

vars == <<pc, method, req, db, sessions, closes, out>>

NoRequest == GetRequest("", <<>>)

NoOutcome == Aborted(NewContext, {}, "none")

Init ==
  /\ pc = [w \in Workers |-> "idle"]
  /\ method = [w \in Workers |-> ""]
  /\ req = [w \in Workers |-> NoRequest]
  /\ db = [w \in Workers |-> 0]
  /\ sessions = [i \in SessionIds |-> "free"]
  /\ closes = [i \in SessionIds |-> 0]
  /\ out = [w \in Workers |-> NoOutcome]

\* db.close() at the end of the try block instead of in a finally clause: an
\* abort leaves the handler without closing.
FinallyClauseSkippedOnAbort(aborted) == IF aborted THEN "done" ELSE "closing"

\* Where a call goes when its try block is left, by return or by exception:
\* the finally clause, which closes the session.
FinallyClause(aborted) == "closing"

\* A call arrives and the handler runs up to `db: Session = SessionLocal()`,
\* which makes a session of its own for the call (the first unused identity).
Receive(w, name, requests) ==
  /\ pc[w] = "idle"
  /\ \E request \in requests, i \in SessionIds :
       /\ sessions[i] = "free"
       /\ \A j \in SessionIds : sessions[j] = "free" => i <= j
       /\ req' = [req EXCEPT ![w] = request]
       /\ db' = [db EXCEPT ![w] = i]
       /\ sessions' = [sessions EXCEPT ![i] = "open"]
  /\ method' = [method EXCEPT ![w] = name]
  /\ pc' = [pc EXCEPT ![w] = "running"]
  /\ UNCHANGED <<closes, out>>

\* The try block is left with a result: on to the finally clause.
Leave(w, result) ==
  /\ out' = [out EXCEPT ![w] = result]
  /\ pc' = [pc EXCEPT ![w] = FinallyClause(result.context.aborted)]

\* The try / except of GetProduct.
GetProductBody(w) ==
  /\ pc[w] = "running" /\ method[w] = "GetProduct"
  /\ \E fault \in GetFaults : Leave(w, GetProduct(req[w], fault))
  /\ UNCHANGED <<method, req, db, sessions, closes>>

\* The try / except of ListProducts.
ListProductsBody(w) ==
  /\ pc[w] = "running" /\ method[w] = "ListProducts"
  /\ \E fault \in ListFaults, convFail \in ConvFails, L \in Answers(req[w]) :
       Leave(w, ListProducts(req[w], fault, convFail, L))
  /\ UNCHANGED <<method, req, db, sessions, closes>>

\* finally: db.close().
Close(w) ==
  /\ pc[w] = "closing"
  /\ sessions' = [sessions EXCEPT ![db[w]] = "closed"]
  /\ closes' = [closes EXCEPT ![db[w]] = @ + 1]
  /\ pc' = [pc EXCEPT ![w] = "done"]
  /\ UNCHANGED <<method, req, db, out>>

\* The call has ended: the server sends the status (and the response, if the
\* handler returned one); the worker and the session object are free again.
Finish(w) ==
  /\ pc[w] = "done"
  /\ pc' = [pc EXCEPT ![w] = "idle"]
  /\ method' = [method EXCEPT ![w] = ""]
  /\ req' = [req EXCEPT ![w] = NoRequest]
  /\ out' = [out EXCEPT ![w] = NoOutcome]
  /\ sessions' = [sessions EXCEPT ![db[w]] = "free"]
  /\ closes' = [closes EXCEPT ![db[w]] = 0]
  /\ db' = [db EXCEPT ![w] = 0]

\* One call at a time, every request.
Next ==
  \/ Receive(1, "GetProduct", GetRequests)
  \/ Receive(1, "ListProducts", ListRequests)
  \/ GetProductBody(1)
  \/ ListProductsBody(1)
  \/ Close(1)
  \/ Finish(1)

Spec == Init /\ [][Next]_vars

\* The status the call ends with.
Status(w) == IF out[w].context.aborted THEN out[w].context.code ELSE "OK"

\* ---------------------------------------------------------- the worker pool
\* serve(): a pool of workers serves calls concurrently.  The requests of the
\* pool cover every way out of the two handlers: a normal return, the
\* NOT_FOUND abort, an abort from the handler of a nested try, an abort from
\* the outer handler.
PoolGetRequests ==
  {GetRequest("p1", <<>>), GetRequest("p9", <<>>), GetRequest("p1", <<<<"name">>>>)}

PoolListRequests ==
  {ListRequest(Criteria(<<"price">>, "EQUALS", IntV(1)), <<>>, 0, 1, <<>>, <<>>),
   ListRequest(<<>>, <<<<"colour">>>>, 0, 0, <<>>, <<>>)}

NextPool ==
  \E w \in Workers :
    \/ Receive(w, "GetProduct", PoolGetRequests)
    \/ Receive(w, "ListProducts", PoolListRequests)
    \/ GetProductBody(w)
    \/ ListProductsBody(w)
    \/ Close(w)
    \/ Finish(w)

SpecPool == Init /\ [][NextPool]_vars

\* ================================================================== claims
Done(w, name) == pc[w] = "done" /\ method[w] = name

\* The products that satisfy the where-map of a request.
MatchingProducts(request) ==
  {id \in Range(ProductIds) :
     \A c \in apply_filters(request.where).conds : EvalCondition(c, Products[id])}

\* The identifiers of the products of a list response, in order.
ResponseIds(products) == [i \in 1..Len(products) |-> products[i].id]

\* C1: a GetProduct call whose id parses, whose query ran without a storage
\* fault and found no row ends with status NOT_FOUND.
GetProductAbsentIsNotFound ==
  \A w \in Workers :
    (/\ Done(w, "GetProduct")
     /\ req[w].id \in ValidUuids
     /\ req[w].id \notin DOMAIN Products
     /\ out[w].fault = "none")
    => Status(w) = "NOT_FOUND"

\* C2: a ListProducts call that returns fetched the rows from position offset
\* on, all of them when limit = 0 and limit of them otherwise (each product
\* once).
PaginationLimitZeroUnbounded ==
  \A w \in Workers :
    (Done(w, "ListProducts") /\ out[w].returned)
    => out[w].fetched =
         UniqueProducts(IF req[w].limit = 0
                        THEN SliceFrom(out[w].rows, req[w].offset)
                        ELSE Slice(out[w].rows, req[w].offset,
                                   req[w].offset + req[w].limit), {})

\* C3: the total_count of a ListProducts call that returns is the number of
\* distinct products that satisfy the filter, whatever the ordering, the
\* offset and the limit.
TotalCountIsMatchCount ==
  \A w \in Workers :
    (Done(w, "ListProducts") /\ out[w].returned)
    => out[w].total_count = Cardinality(MatchingProducts(req[w]))

\* C5: a call that has ended closed its own session exactly once; a call that
\* is still running holds an open session nobody closed; no session is open
\* without a running call that owns it; no two calls hold the same session.
SessionClosedExactlyOnce ==
  /\ \A w \in Workers :
       pc[w] = "done" =>
         db[w] # 0 /\ sessions[db[w]] = "closed" /\ closes[db[w]] = 1
  /\ \A w \in Workers :
       pc[w] \in {"running", "closing"} =>
         db[w] # 0 /\ sessions[db[w]] = "open" /\ closes[db[w]] = 0
  /\ \A i \in SessionIds :
       sessions[i] = "open" =>
         \E w \in Workers : db[w] = i /\ pc[w] \in {"running", "closing"}
  /\ \A v, w \in Workers : (v # w /\ db[v] # 0) => db[v] # db[w]

\* C5 witness: one call has ended by an abort, its session closed once, while
\* a second call is running on an open session of its own.
SessionClosedAfterAbortWitness ==
  \E v, w \in Workers :
    /\ v # w
    /\ pc[v] = "done" /\ out[v].context.aborted /\ closes[db[v]] = 1
    /\ pc[w] = "running" /\ sessions[db[w]] = "open"

\* C4 (as stated): in a ListProducts call that returns, a fetched product for
\* which any shaping step failed (conversion, nested filter, field mask) is
\* not in the list, and the others are, in fetch order.
ShapingFailed(w, id) == \E e \in out[w].log : e.product = id

ConversionFailed(w, id) == LogEvent("product", id) \in out[w].log

BadPathMessage(request) ==
  LET filters == apply_filters(request.where)
      ordering == ApplyOrdering(request.order_by)
  IN  IF filters.raised
      THEN ErrorMessage("Error applying filters: ", filters.msg)
      ELSE ErrorMessage("Error applying ordering: ", ordering.msg)

HasBadPath(request) ==
  LET filters == apply_filters(request.where)
      ordering == ApplyOrdering(request.order_by)
  IN  IF filters.raised THEN filters.msg = <<"AttributeError">>
      ELSE ordering.raised /\ ordering.msg = <<"AttributeError">>

BadPathIsInvalidRequest ==
  \A w \in Workers :
    (Done(w, "ListProducts") /\ HasBadPath(req[w]))
    => /\ ~out[w].returned
       /\ Status(w) = "INVALID_ARGUMENT"
       /\ out[w].context.details = BadPathMessage(req[w])

\* C7: a criteria whose operator is outside the operator maps constrains
\* nothing and fails nothing, with or without a populated value: a
\* ListProducts call whose where-map has only such criteria (on columns that
\* exist) returns with every product matched, and a REVIEWS nested filter
\* whose where-map has only such criteria keeps every review.
OnlyUnknownOperators(where, columns) ==
  /\ where # <<>>
  /\ \A f \in DOMAIN where :
       /\ where[f].operator \notin Operators
       /\ \/ AttrName(f) \in columns
          \/ /\ Len(Split(f, ".")) = 2
             /\ AttrName(Split(f, ".")[1]) \in {"manufacturer", "category"}
             /\ AttrName(Split(f, ".")[2]) \in {"id", "name"}

UnknownOperatorNeverRejects ==
  \A w \in Workers :
    /\ (/\ Done(w, "ListProducts") /\ out[w].fault = "none"
        /\ req[w].order_by = <<>>
        /\ OnlyUnknownOperators(req[w].where, ProductColumns))
       => /\ out[w].returned
          /\ {out[w].rows[i].product : i \in 1..Len(out[w].rows)}
               = Range(ProductIds)
    /\ (/\ Done(w, "ListProducts") /\ out[w].returned
        /\ "REVIEWS" \in DOMAIN req[w].nested_filters
        /\ \A id \in Range(ProductIds) : ~ConversionFailed(w, id))
       => LET nf == req[w].nested_filters["REVIEWS"]
          IN  (/\ OnlyUnknownOperators(nf.where, ReviewResponseFields)
               /\ nf.order_by = <<>> /\ nf.offset = 0 /\ nf.limit = 0)
              => \A i \in 1..Len(out[w].products) :
                   out[w].products[i].reviews =
                     product_to_response(Products[out[w].fetched[i]]).reviews

\* C8: with a where-map of one LIKE criteria on a string column of the
\* product or of its manufacturer, the products the storage matches are
\* exactly those for which compare_values accepts the column value, that is
\* those whose value contains the pattern regardless of case.
LikeIsCaseInsensitiveContainment ==
  \A w \in Workers :
    (/\ Done(w, "ListProducts") /\ out[w].returned
     /\ req[w].order_by = <<>>
     /\ Cardinality(DOMAIN req[w].where) = 1
     /\ \A f \in DOMAIN req[w].where : req[w].where[f].operator = "LIKE")
    => \A f \in DOMAIN req[w].where : \A id \in Range(ProductIds) :
         LET c == apply_filter_criteria(f, req[w].where[f]).c
             row == IF c.rel = "" THEN Products[id]
                    ELSE RelatedRow(Products[id], c.rel)
             inMemory == compare_values(ColumnValue(row, c.attr),
                                        req[w].where[f].value, "LIKE")
         IN  /\ (id \in {out[w].rows[i].product : i \in 1..Len(out[w].rows)})
                  <=> inMemory
             /\ inMemory <=> Contains(Lower(row[c.attr]),
                                      Lower(req[w].where[f].value.s))

\* C9: a non-empty mask that lists a strict subset of the field paths of the
\* response leaves every listed field as it was, clears every field that is
\* neither listed nor an ancestor of a listed path, and keeps of a
\* sub-message under a listed nested path only the listed sub-fields.
FieldPaths ==
  {<<f>> : f \in ProductResponseFields}
    \cup {<<m, ".", f>> : m \in {"manufacturer", "category"}, f \in {"id", "name"}}

StrictSubsetMask(paths) ==
  /\ paths # <<>>
  /\ Range(paths) \subseteq FieldPaths
  /\ \E f \in ProductResponseFields : <<f>> \notin Range(paths)

MaskedSubMessage(sub, name, paths) ==
  IF <<name>> \in Range(paths) THEN sub
  ELSE IF \E f \in {"id", "name"} : <<name, ".", f>> \in Range(paths)
  THEN [set |-> sub.set,
        id |-> IF <<name, ".", "id">> \in Range(paths) THEN sub.id ELSE <<>>,
        name |-> IF <<name, ".", "name">> \in Range(paths) THEN sub.name ELSE <<>>]
  ELSE UnsetSubMessage

MaskedAsListed(response, paths) ==
  LET kept(f) == <<f>> \in Range(paths)
  IN  [id |-> IF kept("id") THEN response.id ELSE <<>>,
       name |-> IF kept("name") THEN response.name ELSE <<>>,
       price |-> IF kept("price") THEN response.price ELSE 0,
       manufacturer_id |->
         IF kept("manufacturer_id") THEN response.manufacturer_id ELSE <<>>,
       category_id |-> IF kept("category_id") THEN response.category_id ELSE <<>>,
       manufacturer |-> MaskedSubMessage(response.manufacturer, "manufacturer", paths),
       category |-> MaskedSubMessage(response.category, "category", paths),
       reviews |-> IF kept("reviews") THEN response.reviews ELSE <<>>]

MaskClearsComplement ==
  \A w \in Workers :
    /\ (/\ Done(w, "GetProduct") /\ out[w].fault = "none"
        /\ req[w].id \in DOMAIN Products
        /\ StrictSubsetMask(req[w].field_mask))
       => /\ out[w].returned
          /\ out[w].product =
               MaskedAsListed(product_to_response(Products[req[w].id]),
                              req[w].field_mask)
    /\ (/\ Done(w, "ListProducts") /\ out[w].returned
        /\ req[w].nested_filters = <<>>
        /\ StrictSubsetMask(req[w].field_mask)
        /\ \A id \in Range(ProductIds) : ~ConversionFailed(w, id))
       => \A i \in 1..Len(out[w].products) :
            out[w].products[i] =
              MaskedAsListed(product_to_response(Products[out[w].fetched[i]]),
                             req[w].field_mask)

\* C10: with the mask that lists every field of the product response, the
\* call returns the response as it was converted: same fields, same reviews in
\* the same order.
FullMaskIsIdentity ==
  \A w \in Workers :
    /\ (/\ Done(w, "GetProduct") /\ out[w].fault = "none"
        /\ req[w].id \in DOMAIN Products
        /\ req[w].field_mask = FullMask)
       => /\ out[w].returned
          /\ out[w].product = product_to_response(Products[req[w].id])
    /\ (/\ Done(w, "ListProducts") /\ out[w].returned
        /\ req[w].nested_filters = <<>>
        /\ req[w].field_mask = FullMask
        /\ \A id \in Range(ProductIds) : ~ConversionFailed(w, id))
       => \A i \in 1..Len(out[w].products) :
            out[w].products[i] = product_to_response(Products[out[w].fetched[i]])

\* ---- nested filters: what a sorted and sliced list of reviews is
\* The reviews of a product of the response as the conversion projected them.
ConvertedReviews(response) ==
  product_to_response(Products[response.id[1]]).reviews

\* The reviews the where-map of a nested filter accepts, in their order.
KeptReviews(reviews, where) ==
  SelectSeq(reviews, LAMBDA review : matches_filter(review, where))

EntryReverse(entry) == entry # <<>> /\ Head(entry) = "-"

EntryField(entry) == IF EntryReverse(entry) THEN Tail(entry) ELSE entry

\* x goes strictly before y under one entry of order_by.
EntryBefore(x, y, entry) ==
  SortsBefore(x, y, EntryField(entry), EntryReverse(entry))

\* x goes strictly before y under the entries of order_by, the first entry
\* deciding and each later entry breaking the ties the earlier ones leave.
RECURSIVE FirstEntryPrimaryBefore(_, _, _)
FirstEntryPrimaryBefore(x, y, order_by) ==
  IF order_by = <<>> THEN FALSE
  ELSE \/ EntryBefore(x, y, Head(order_by))
       \/ /\ ~EntryBefore(y, x, Head(order_by))
          /\ FirstEntryPrimaryBefore(x, y, Tail(order_by))

\* The element at position i of s precedes the one at position j: the entries
\* put it first, or they tie and it stood first.
Precedes(s, i, j, order_by) ==
  \/ FirstEntryPrimaryBefore(s[i], s[j], order_by)
  \/ /\ ~FirstEntryPrimaryBefore(s[j], s[i], order_by)
     /\ i < j

RankOf(s, i, order_by) ==
  1 + Cardinality({j \in 1..Len(s) : j # i /\ Precedes(s, j, i, order_by)})

\* s sorted by order_by, first entry primary, stable.
SortedFirstEntryPrimary(s, order_by) ==
  [k \in 1..Len(s) |->
     s[CHOOSE i \in 1..Len(s) : RankOf(s, i, order_by) = k]]

\* How many elements of a list of n the positions [offset, offset+limit)
\* hold, or [offset, end) when limit = 0.
SliceLength(n, offset, limit) ==
  LET rest == IF n > offset THEN n - offset ELSE 0
  IN  IF limit > 0 /\ limit < rest THEN limit ELSE rest

SlicedAsClaimed(s, offset, limit) ==
  [k \in 1..SliceLength(Len(s), offset, limit) |-> s[offset + k]]

\* The reviews a nested filter leaves of the kept ones.  The order is pinned
\* when order_by has at most one entry; with several entries (their priority
\* is the subject of C12) the list is of the length of the slice and holds
\* kept reviews, none twice.
NestedAsClaimed(reviews, kept, nested_filter) ==
  IF Len(nested_filter.order_by) <= 1
  THEN reviews = SlicedAsClaimed(
                   SortedFirstEntryPrimary(kept, nested_filter.order_by),
                   nested_filter.offset, nested_filter.limit)
  ELSE /\ Len(reviews)
            = SliceLength(Len(kept), nested_filter.offset, nested_filter.limit)
       /\ Range(reviews) \subseteq Range(kept)
       /\ \A i, j \in 1..Len(reviews) : reviews[i] = reviews[j] => i = j

NestedOrderFirstEntryPrimary ==
  \A w \in Workers :
    (/\ Done(w, "ListProducts") /\ out[w].returned
     /\ "REVIEWS" \in DOMAIN req[w].nested_filters
     /\ Len(req[w].nested_filters["REVIEWS"].order_by) >= 2)
    => \A i \in 1..Len(out[w].products) :
         out[w].products[i].reviews =
           SlicedAsClaimed(
             SortedFirstEntryPrimary(
               KeptReviews(ConvertedReviews(out[w].products[i]),
                           req[w].nested_filters["REVIEWS"].where),
               req[w].nested_filters["REVIEWS"].order_by),
             req[w].nested_filters["REVIEWS"].offset,
             req[w].nested_filters["REVIEWS"].limit)

====
